---- MODULE Spec2Model ----
(***************************************************************************)
(* A model of sksurv/util.py: the construction and validation of survival  *)
(* outcomes (Surv.from_arrays, Surv.from_dataframe, check_y_survival,      *)
(* check_array_survival, build_survival_tree_array) and the categorical    *)
(* preserving merge safe_concat.                                           *)
(*                                                                         *)
(* Every function of the file is a pure operator, computed as the code     *)
(* computes it; the initial states draw the arguments of one call from     *)
(* bounded sets and one action per function applies it.  A packed outcome  *)
(* built by Surv.from_arrays can then be handed to the three consumers.    *)
(***************************************************************************)
EXTENDS Integers, Sequences, FiniteSets

VARIABLES
    pc,     \* "call": arg holds a pending call; "have_y": y is at hand; "done"
    arg,    \* the arguments of the current call, as the caller passed them
    mem,    \* the same argument objects as they are in memory now
    y,      \* the packed outcome at hand (caller supplied, or built)
    built,  \* the Surv.from_arrays arguments that built y, or NoBuilt
    ret     \* what the last call returned or raised

vars == <<pc, arg, mem, y, built, ret>>

\* Longest array (number of samples) the initial states draw.
MaxLen == 3
\* Most objects a safe_concat call is given.
MaxObjs == 2

(***************************************************************************)
(* Values.  A float64 element is a record: finite with value v, or NaN.    *)
(* int64 elements are integers, bool elements are booleans.                *)
(***************************************************************************)
Float(n) == [fin |-> TRUE, v |-> n]
NaN == [fin |-> FALSE, v |-> 0]

Array(dtype, vals) == [kind |-> "ndarray", dtype |-> dtype, vals |-> vals]
ArraysOf(dtype, V, n) == {Array(dtype, s) : s \in [1..n -> V]}

NoneValue == [kind |-> "None"]

\* What a call returns, and what it raises (exc: the exception class,
\* msg: the message of the raise statement, at: the argument position named).
Return(v) == [ok |-> TRUE, exc |-> "", msg |-> "", at |-> 0, value |-> v]
Raise(exc, msg) == [ok |-> FALSE, exc |-> exc, msg |-> msg, at |-> 0, value |-> <<>>]
RaiseAt(exc, msg, i) == [ok |-> FALSE, exc |-> exc, msg |-> msg, at |-> i, value |-> <<>>]
NoRet == Raise("", "")
NoBuilt == [op |-> "none"]
NoArg == [op |-> "none"]
NoY == [kind |-> "none"]

\* The messages of the raise statements of util.py, under the names the
\* error taxonomy gives them.
NamingConflict == "name_time must be different from name_event"
CardinalityError == "event indicator must be binary"
EncodingError == "non-boolean event indicator must contain 0 and 1 only"
StructureError == "y must be a structured array"
FieldCountError == "y must contain two or three fields"
EventTypeError == "elements of event indicator must be boolean"
TimeTypeError == "time must be numeric"
AllCensoredError == "all samples are censored"
DuplicateColumn == "duplicate columns"
CategoryMismatch == "categories do not match"
\* Raised by the sklearn helpers the file calls.
LengthMismatch == "Found input variables with inconsistent numbers of samples"
EmptyArrayError == "Found array with 0 sample(s) while a minimum of 1 is required"
NotFiniteError == "Input contains NaN, infinity or a value too large"
UnpackError == "too many values to unpack (expected 2)"

(***************************************************************************)
(* numpy helpers                                                           *)
(***************************************************************************)
\* One element converted to float64 (astype(float) / asanyarray(dtype=float)).
ToFloat(dtype, x) ==
    IF dtype = "float64" THEN x
    ELSE IF dtype = "bool" THEN Float(IF x THEN 1 ELSE 0)
    ELSE Float(x)

AsFloat64(a) == Array("float64", [i \in DOMAIN a.vals |-> ToFloat(a.dtype, a.vals[i])])

\* One element converted to bool (astype(bool)): zero is False, the rest True.
ToBool(dtype, x) ==
    IF dtype = "bool" THEN x
    ELSE IF dtype = "float64" THEN ~(x.fin /\ x.v = 0)
    ELSE x # 0

AsBool(a) == Array("bool", [i \in DOMAIN a.vals |-> ToBool(a.dtype, a.vals[i])])

Range(s) == {s[i] : i \in DOMAIN s}

\* The elements of a finite set of integers in increasing order.
RECURSIVE SortedInts(_)
SortedInts(S) ==
    IF S = {} THEN <<>>
    ELSE LET m == CHOOSE x \in S : \A z \in S : x <= z
         IN <<m>> \o SortedInts(S \ {m})

\* numpy.unique of a float64 array: distinct values, increasing, NaN last.
UniqueFloats(vals) ==
    LET fins == {x.v : x \in {z \in Range(vals) : z.fin}}
        sorted == SortedInts(fins)
        head == [i \in 1..Len(sorted) |-> Float(sorted[i])]
    IN IF \E z \in Range(vals) : ~z.fin THEN Append(head, NaN) ELSE head

\* numpy.unique of an array: its distinct values, sorted.
unique(a) == IF a.dtype = "float64" THEN UniqueFloats(a.vals) ELSE SortedInts(Range(a.vals))

\* a[mask]: the elements of vals at the positions where mask is true.
RECURSIVE MaskSelect(_, _)
MaskSelect(vals, mask) ==
    IF vals = <<>> THEN <<>>
    ELSE IF Head(mask) THEN <<Head(vals)>> \o MaskSelect(Tail(vals), Tail(mask))
    ELSE MaskSelect(Tail(vals), Tail(mask))

\* numpy.any of a boolean array.
numpy_any(a) == \E i \in DOMAIN a.vals : a.vals[i]

(***************************************************************************)
(* sklearn helpers                                                         *)
(***************************************************************************)
\* sklearn.utils.check_array(a, ensure_2d=False) with its defaults
\* force_all_finite=True and ensure_min_samples=1: the array is returned as
\* it is, unless it holds a non-finite float or has no sample.
check_array(a) ==
    IF a.dtype = "float64" /\ \E i \in DOMAIN a.vals : ~a.vals[i].fin
    THEN Raise("ValueError", NotFiniteError)
    ELSE IF Len(a.vals) < 1
    THEN Raise("ValueError", EmptyArrayError)
    ELSE Return(a)

\* sklearn.utils.check_consistent_length: the lengths given must be one.
check_consistent_length(lengths) == Cardinality(Range(lengths)) <= 1

(***************************************************************************)
(* Surv.from_arrays                                                        *)
(***************************************************************************)
Structured(names, fields) == [kind |-> "structured", names |-> names, fields |-> fields]

\* numpy.array([0, 1], dtype=events.dtype)
ZeroOne(dtype) ==
    IF dtype = "float64" THEN <<Float(0), Float(1)>>
    ELSE IF dtype = "bool" THEN <<FALSE, TRUE>>
    ELSE <<0, 1>>

\* A faulty variant of from_arrays: the cardinality test written `len(events) > 2`.
from_arrays_at_most_two(event, time, name_event, name_time) ==
    LET ne == IF name_event = "" THEN "event" ELSE name_event
        nt == IF name_time = "" THEN "time" ELSE name_time
        t == AsFloat64(time)
    IN IF nt = ne THEN Raise("ValueError", NamingConflict)
       ELSE IF ~check_consistent_length(<<Len(t.vals), Len(event.vals)>>)
       THEN Raise("ValueError", LengthMismatch)
       ELSE IF event.dtype = "bool"
       THEN Return(Structured(<<ne, nt>>, <<Array("bool", event.vals), t>>))
       ELSE LET events == unique(event)
            IN IF Len(events) > 2 THEN Raise("ValueError", CardinalityError)
               ELSE IF events = ZeroOne(event.dtype)
               THEN Return(Structured(<<ne, nt>>, <<AsBool(event), t>>))
               ELSE Raise("ValueError", EncodingError)

\* A faulty variant of from_arrays: any array of the codes 0 and 1 is taken for binary,
\* also one that holds a single code.
from_arrays_codes_subset(event, time, name_event, name_time) ==
    LET ne == IF name_event = "" THEN "event" ELSE name_event
        nt == IF name_time = "" THEN "time" ELSE name_time
        t == AsFloat64(time)
    IN IF nt = ne THEN Raise("ValueError", NamingConflict)
       ELSE IF ~check_consistent_length(<<Len(t.vals), Len(event.vals)>>)
       THEN Raise("ValueError", LengthMismatch)
       ELSE IF event.dtype = "bool"
       THEN Return(Structured(<<ne, nt>>, <<Array("bool", event.vals), t>>))
       ELSE LET events == unique(event)
            IN IF Range(events) \subseteq Range(ZeroOne(event.dtype)) /\ Len(events) >= 1
               THEN Return(Structured(<<ne, nt>>, <<AsBool(event), t>>))
               ELSE IF Len(events) # 2 THEN Raise("ValueError", CardinalityError)
               ELSE Raise("ValueError", EncodingError)

\* name "" stands for None (and for the empty string): `name or default`.
from_arrays(event, time, name_event, name_time) ==
    LET ne == IF name_event = "" THEN "event" ELSE name_event
        nt == IF name_time = "" THEN "time" ELSE name_time
        t == AsFloat64(time)
    IN IF nt = ne THEN Raise("ValueError", NamingConflict)
       ELSE IF ~check_consistent_length(<<Len(t.vals), Len(event.vals)>>)
       THEN Raise("ValueError", LengthMismatch)
       ELSE IF event.dtype = "bool"
       THEN Return(Structured(<<ne, nt>>, <<Array("bool", event.vals), t>>))
       ELSE LET events == unique(event)
            IN IF Len(events) # 2 THEN Raise("ValueError", CardinalityError)
               ELSE IF events = ZeroOne(event.dtype)
               THEN Return(Structured(<<ne, nt>>, <<AsBool(event), t>>))
               ELSE Raise("ValueError", EncodingError)

(***************************************************************************)
(* Surv.from_dataframe                                                     *)
(***************************************************************************)
\* data is a pandas.DataFrame (kind "frame", cols: column id -> array) or
\* something else; data.loc[:, c] of a missing column raises KeyError.
from_dataframe(event, time, data) ==
    IF data.kind # "frame" THEN Raise("TypeError", "exepected pandas.DataFrame")
    ELSE IF event \notin DOMAIN data.cols \/ time \notin DOMAIN data.cols
    THEN Raise("KeyError", "column not found")
    ELSE from_arrays(data.cols[event], data.cols[time], event, time)

(***************************************************************************)
(* check_y_survival                                                        *)
(***************************************************************************)
numeric(dtype) == dtype \in {"int64", "float64"}

\* The loop over time_args (lines 160-169); i is enumerate's index of the
\* first element of time_args, return_val what was appended so far.
RECURSIVE check_times(_, _, _)
check_times(time_args, i, return_val) ==
    IF time_args = <<>> THEN Return(return_val)
    ELSE LET yt == Head(time_args)
         IN IF yt = NoneValue
            THEN check_times(Tail(time_args), i + 1, Append(return_val, yt))
            ELSE LET c == check_array(yt)
                 IN IF ~c.ok THEN c
                    ELSE IF ~numeric(c.value.dtype)
                    THEN RaiseAt("ValueError", TimeTypeError, i + 2)
                    ELSE check_times(Tail(time_args), i + 1, Append(return_val, c.value))

\* A faulty variant of check_event_and_times: the all-censored check is missing.
check_event_and_times_no_censoring_check(y_event, time_args, allow_all_censored) ==
    LET c == check_array(y_event)
    IN IF ~c.ok THEN c
       ELSE IF c.value.dtype # "bool" THEN Raise("ValueError", EventTypeError)
       ELSE check_times(time_args, 0, <<c.value>>)

\* A faulty variant of check_event_and_times: the all-censored check (on the truth
\* values of the elements) comes before the check of the element type.
check_event_and_times_censoring_first(y_event, time_args, allow_all_censored) ==
    LET c == check_array(y_event)
    IN IF ~c.ok THEN c
       ELSE IF ~(allow_all_censored \/ numpy_any(AsBool(c.value)))
       THEN Raise("ValueError", AllCensoredError)
       ELSE IF c.value.dtype # "bool" THEN Raise("ValueError", EventTypeError)
       ELSE check_times(time_args, 0, <<c.value>>)

\* Lines 152-171: the checks both call shapes share.
check_event_and_times(y_event, time_args, allow_all_censored) ==
    LET c == check_array(y_event)
    IN IF ~c.ok THEN c
       ELSE IF c.value.dtype # "bool" THEN Raise("ValueError", EventTypeError)
       ELSE IF ~(allow_all_censored \/ numpy_any(c.value))
       THEN Raise("ValueError", AllCensoredError)
       ELSE check_times(time_args, 0, <<c.value>>)

\* A faulty variant of check_y_survival: the time fields are taken from names[0:], the
\* event field among them.
check_y_survival_all_fields(y_or_event, args, allow_all_censored) ==
    IF Len(args) = 0
    THEN IF y_or_event.kind # "structured"
         THEN Raise("ValueError", StructureError)
         ELSE IF ~(2 <= Len(y_or_event.fields) /\ Len(y_or_event.fields) <= 3)
         THEN Raise("ValueError", FieldCountError)
         ELSE check_event_and_times(Head(y_or_event.fields), y_or_event.fields,
                                    allow_all_censored)
    ELSE check_event_and_times(y_or_event, args, allow_all_censored)

check_y_survival(y_or_event, args, allow_all_censored) ==
    IF Len(args) = 0
    THEN IF y_or_event.kind # "structured"
         THEN Raise("ValueError", StructureError)
         ELSE IF ~(2 <= Len(y_or_event.fields) /\ Len(y_or_event.fields) <= 3)
         THEN Raise("ValueError", FieldCountError)
         ELSE check_event_and_times(Head(y_or_event.fields), Tail(y_or_event.fields),
                                    allow_all_censored)
    ELSE check_event_and_times(y_or_event, args, allow_all_censored)

(***************************************************************************)
(* check_array_survival                                                    *)
(***************************************************************************)
\* X is known by its number of samples, X.shape[0].
Matrix(n) == [kind |-> "matrix", shape0 |-> n]

Lengths(arrays) == [i \in DOMAIN arrays |-> Len(arrays[i].vals)]

\* A faulty variant of check_array_survival: X is left out of the length check.
check_array_survival_without_X(X, yy) ==
    LET r == check_y_survival(yy, <<>>, FALSE)
    IN IF ~r.ok THEN r
       ELSE IF Len(r.value) # 2 THEN Raise("ValueError", UnpackError)
       ELSE IF ~check_consistent_length(Lengths(r.value))
       THEN Raise("ValueError", LengthMismatch)
       ELSE Return(r.value)

check_array_survival(X, yy) ==
    LET r == check_y_survival(yy, <<>>, FALSE)
    IN IF ~r.ok THEN r
       ELSE IF Len(r.value) # 2 THEN Raise("ValueError", UnpackError)
       ELSE IF ~check_consistent_length(<<X.shape0>> \o Lengths(r.value))
       THEN Raise("ValueError", LengthMismatch)
       ELSE Return(r.value)

(***************************************************************************)
(* build_survival_tree_array                                               *)
(***************************************************************************)
\* A faulty variant of build_survival_tree_array: event_times is taken over all rows,
\* numpy.unique(y_numeric[:, 0]).
build_survival_tree_array_all_times(X, yy, with_event) ==
    LET r == check_y_survival(yy, <<>>, FALSE)
    IN IF ~r.ok THEN r
       ELSE LET event == r.value[1]
                time == r.value[2]
                entry == SubSeq(r.value, 3, Len(r.value))
            IN IF ~check_consistent_length(<<X.shape0>> \o Lengths(r.value))
               THEN Raise("ValueError", LengthMismatch)
               ELSE LET col0 == AsFloat64(time).vals
                        col1 == AsFloat64(event).vals
                        y_numeric ==
                            [i \in 1..X.shape0 |->
                                IF Len(entry) > 0
                                THEN <<col0[i], col1[i], AsFloat64(entry[1]).vals[i]>>
                                ELSE <<col0[i], col1[i]>>]
                        event_times == UniqueFloats(col0)
                    IN Return([y_numeric |-> y_numeric,
                               event_times |-> event_times,
                               event |-> IF with_event THEN event ELSE NoneValue])

\* The value returned: y_numeric as a sequence of rows, event_times, and
\* event when with_event is set (NoneValue stands for its absence).
build_survival_tree_array(X, yy, with_event) ==
    LET r == check_y_survival(yy, <<>>, FALSE)
    IN IF ~r.ok THEN r
       ELSE LET event == r.value[1]
                time == r.value[2]
                entry == SubSeq(r.value, 3, Len(r.value))
            IN IF ~check_consistent_length(<<X.shape0>> \o Lengths(r.value))
               THEN Raise("ValueError", LengthMismatch)
               ELSE LET col0 == AsFloat64(time).vals
                        col1 == AsFloat64(event).vals
                        y_numeric ==
                            [i \in 1..X.shape0 |->
                                IF Len(entry) > 0
                                THEN <<col0[i], col1[i], AsFloat64(entry[1]).vals[i]>>
                                ELSE <<col0[i], col1[i]>>]
                        event_times == UniqueFloats(MaskSelect(col0, event.vals))
                    IN Return([y_numeric |-> y_numeric,
                               event_times |-> event_times,
                               event |-> IF with_event THEN event ELSE NoneValue])

(***************************************************************************)
(* safe_concat                                                             *)
(*                                                                         *)
(* A column is its dtype ("category" or "object"), its category index (a   *)
(* sequence: Index.equals compares values in order), its orderedness, and  *)
(* its values.  A DataFrame is a sequence of named columns, a Series one   *)
(* named column.  The string "nan" is the missing value.                   *)
(***************************************************************************)
Column(dtype, cats, ordered, vals) ==
    [dtype |-> dtype, categories |-> cats, ordered |-> ordered, vals |-> vals]
Named(name, col) == [name |-> name, col |-> col]
Frame(cols) == [kind |-> "frame", cols |-> cols]
Series(name, col) == [kind |-> "series", name |-> name, col |-> col]

\* s.astype(object): the plain column of the same values.
AsObject(col) == Column("object", <<>>, FALSE, col.vals)

\* The dict `categories`: entries in insertion order, one per key.
HasKey(categories, name) == \E k \in DOMAIN categories : categories[k].name = name
Lookup(categories, name) ==
    categories[CHOOSE k \in DOMAIN categories : categories[k].name = name]
\* categories[name] = {...}: a new key is appended, a known key overwritten.
Store(categories, name, col) ==
    LET e == [name |-> name, categories |-> col.categories, ordered |-> col.ordered]
    IN IF HasKey(categories, name)
       THEN [k \in DOMAIN categories |->
                IF categories[k].name = name THEN e ELSE categories[k]]
       ELSE Append(categories, e)

\* A faulty variant of scan_frame: the category indexes are compared before the axis
\* is looked at.
RECURSIVE scan_frame_compare_first(_, _, _, _)
scan_frame_compare_first(df, j, categories, axis) ==
    IF j > Len(df.cols) THEN [err |-> "", categories |-> categories, df |-> df]
    ELSE LET name == df.cols[j].name
             s == df.cols[j].col
             plain == [df EXCEPT !.cols[j].col = AsObject(s)]
         IN IF s.dtype # "category" THEN scan_frame_compare_first(df, j + 1, categories, axis)
            ELSE IF HasKey(categories, name)
            THEN IF Lookup(categories, name).categories # s.categories
                 THEN [err |-> CategoryMismatch, categories |-> categories, df |-> df]
                 ELSE IF axis = 1
                 THEN [err |-> DuplicateColumn, categories |-> categories, df |-> df]
                 ELSE scan_frame_compare_first(plain, j + 1, categories, axis)
            ELSE scan_frame_compare_first(plain, j + 1, Store(categories, name, s), axis)

\* A faulty variant of scan_frame: the dict entry is written for every categorical
\* column that passes the checks, so the spec seen last is the one kept.
RECURSIVE scan_frame_keep_last(_, _, _, _)
scan_frame_keep_last(df, j, categories, axis) ==
    IF j > Len(df.cols) THEN [err |-> "", categories |-> categories, df |-> df]
    ELSE LET name == df.cols[j].name
             s == df.cols[j].col
             plain == [df EXCEPT !.cols[j].col = AsObject(s)]
         IN IF s.dtype # "category" THEN scan_frame_keep_last(df, j + 1, categories, axis)
            ELSE IF HasKey(categories, name) /\ axis = 1
            THEN [err |-> DuplicateColumn, categories |-> categories, df |-> df]
            ELSE IF HasKey(categories, name)
                    /\ Lookup(categories, name).categories # s.categories
            THEN [err |-> CategoryMismatch, categories |-> categories, df |-> df]
            ELSE scan_frame_keep_last(plain, j + 1, Store(categories, name, s), axis)

\* Lines 297-306: the categorical columns of one DataFrame, from column j on.
\* The result is the dict, the DataFrame as it now is, and the error raised.
RECURSIVE scan_frame(_, _, _, _)
scan_frame(df, j, categories, axis) ==
    IF j > Len(df.cols) THEN [err |-> "", categories |-> categories, df |-> df]
    ELSE LET name == df.cols[j].name
             s == df.cols[j].col
             plain == [df EXCEPT !.cols[j].col = AsObject(s)]
         IN IF s.dtype # "category" THEN scan_frame(df, j + 1, categories, axis)
            ELSE IF HasKey(categories, name)
            THEN IF axis = 1
                 THEN [err |-> DuplicateColumn, categories |-> categories, df |-> df]
                 ELSE IF Lookup(categories, name).categories # s.categories
                 THEN [err |-> CategoryMismatch, categories |-> categories, df |-> df]
                 ELSE scan_frame(plain, j + 1, categories, axis)
            ELSE scan_frame(plain, j + 1, Store(categories, name, s), axis)

\* A faulty variant of scan_objs: a categorical Series is made plain in place too.
RECURSIVE scan_objs_series_too(_, _, _, _)
scan_objs_series_too(objs, i, categories, axis) ==
    IF i > Len(objs) THEN [err |-> "", categories |-> categories, objs |-> objs]
    ELSE LET df == objs[i]
         IN IF df.kind = "series"
            THEN IF df.col.dtype = "category"
                 THEN scan_objs_series_too([objs EXCEPT ![i].col = AsObject(df.col)], i + 1,
                                           Store(categories, df.name, df.col), axis)
                 ELSE scan_objs_series_too(objs, i + 1, categories, axis)
            ELSE LET r == scan_frame(df, 1, categories, axis)
                     now == [objs EXCEPT ![i] = r.df]
                 IN IF r.err # ""
                    THEN [err |-> r.err, categories |-> r.categories, objs |-> now]
                    ELSE scan_objs_series_too(now, i + 1, r.categories, axis)

\* Lines 292-306: the loop over objs, from object i on.
RECURSIVE scan_objs(_, _, _, _)
scan_objs(objs, i, categories, axis) ==
    IF i > Len(objs) THEN [err |-> "", categories |-> categories, objs |-> objs]
    ELSE LET df == objs[i]
         IN IF df.kind = "series"
            THEN scan_objs(objs, i + 1,
                           IF df.col.dtype = "category"
                           THEN Store(categories, df.name, df.col) ELSE categories,
                           axis)
            ELSE LET r == scan_frame(df, 1, categories, axis)
                     now == [objs EXCEPT ![i] = r.df]
                 IN IF r.err # ""
                    THEN [err |-> r.err, categories |-> r.categories, objs |-> now]
                    ELSE scan_objs(now, i + 1, r.categories, axis)

(***************************************************************************)
(* pandas.concat, as far as safe_concat relies on it.  Objects are joined  *)
(* on the other axis with the default outer join; the objects drawn here   *)
(* share one index, so a column-wise merge puts the columns side by side.  *)
(***************************************************************************)
RECURSIVE Flatten(_)
Flatten(seqs) == IF seqs = <<>> THEN <<>> ELSE Head(seqs) \o Flatten(Tail(seqs))

Rows(obj) == IF obj.kind = "series" THEN Len(obj.col.vals) ELSE Len(obj.cols[1].col.vals)

\* An object as the DataFrame pandas.concat makes of it: in a row-wise
\* merge that holds a DataFrame, a Series becomes the column labelled 0.
AsFrameCols(obj, axis) ==
    IF obj.kind = "frame" THEN obj.cols
    ELSE <<Named(IF axis = 0 THEN "0" ELSE obj.name, obj.col)>>

HasCol(cols, name) == \E j \in DOMAIN cols : cols[j].name = name
ColOf(cols, name) == cols[CHOOSE j \in DOMAIN cols : cols[j].name = name].col

\* The distinct elements of a sequence, in the order of first appearance.
RECURSIVE FirstSeen(_, _)
FirstSeen(names, seen) ==
    IF names = <<>> THEN seen
    ELSE FirstSeen(Tail(names),
                   IF Head(names) \in Range(seen) THEN seen ELSE Append(seen, Head(names)))

\* One column of a row-wise merge: the objects' values one after the other,
\* missing where an object has no such column; categorical only if every
\* object holds it as the same categorical.
StackColumn(frames, rows, name) ==
    LET piece(k) == IF HasCol(frames[k], name) THEN ColOf(frames[k], name).vals
                    ELSE [r \in 1..rows[k] |-> "nan"]
        vals == Flatten([k \in DOMAIN frames |-> piece(k)])
        first == ColOf(frames[CHOOSE k \in DOMAIN frames : HasCol(frames[k], name)], name)
        same == \A k \in DOMAIN frames :
                    /\ HasCol(frames[k], name)
                    /\ ColOf(frames[k], name).dtype = "category"
                    /\ ColOf(frames[k], name).categories = first.categories
                    /\ ColOf(frames[k], name).ordered = first.ordered
    IN IF same THEN Column("category", first.categories, first.ordered, vals)
       ELSE Column("object", <<>>, FALSE, vals)

pandas_concat(objs, axis) ==
    IF axis = 1
    THEN Frame(Flatten([k \in DOMAIN objs |-> AsFrameCols(objs[k], 1)]))
    ELSE IF \A k \in DOMAIN objs : objs[k].kind = "series"
    THEN LET stacked == StackColumn([k \in DOMAIN objs |-> <<Named("", objs[k].col)>>],
                                    [k \in DOMAIN objs |-> Rows(objs[k])], "")
             name == IF \A k \in DOMAIN objs : objs[k].name = objs[1].name
                     THEN objs[1].name ELSE ""
         IN Series(name, stacked)
    ELSE LET frames == [k \in DOMAIN objs |-> AsFrameCols(objs[k], 0)]
             rows == [k \in DOMAIN objs |-> Rows(objs[k])]
             all == Flatten(frames)
             names == FirstSeen([j \in DOMAIN all |-> all[j].name], <<>>)
         IN Frame([j \in DOMAIN names |-> Named(names[j], StackColumn(frames, rows, names[j]))])

\* pandas.Categorical(values, categories=..., ordered=...): a value that is
\* no category becomes missing.
Categorical(vals, categories, ordered) ==
    Column("category", categories, ordered,
           [r \in DOMAIN vals |-> IF vals[r] \in Range(categories) THEN vals[r] ELSE "nan"])

\* Lines 310-311: the loop over the dict, from entry k on.  concatenated[name]
\* raises KeyError when the merged object has no such label, and the
\* assignment fails when the label names several columns.
RECURSIVE recast(_, _, _)
recast(concatenated, categories, k) ==
    IF k > Len(categories) THEN Return(concatenated)
    ELSE LET e == categories[k]
             hits == IF concatenated.kind = "series" THEN {}
                     ELSE {j \in DOMAIN concatenated.cols : concatenated.cols[j].name = e.name}
         IN IF hits = {} THEN Raise("KeyError", e.name)
            ELSE IF Cardinality(hits) > 1 THEN Raise("PandasError", e.name)
            ELSE LET j == CHOOSE h \in hits : TRUE
                     c == Categorical(concatenated.cols[j].col.vals, e.categories, e.ordered)
                 IN recast([concatenated EXCEPT !.cols[j].col = c], categories, k + 1)

\* The whole of safe_concat: what it returns or raises (ret), its dict as
\* the scan left it, and objs as the call leaves them in memory.
safe_concat(objs, axis) ==
    LET scan == scan_objs(objs, 1, <<>>, axis)
    IN [ret |-> IF scan.err # "" THEN Raise("ValueError", scan.err)
                ELSE recast(pandas_concat(scan.objs, axis), scan.categories, 1),
        categories |-> scan.categories,
        objs |-> scan.objs]

(***************************************************************************)
(* The arguments the initial states draw.                                  *)
(***************************************************************************)
Lens == 0..MaxLen
EventCodes == {0, 1, 2}
IntTimes == {1, 2}
FloatTimes == {Float(0), NaN}

EventArrays(n) == ArraysOf("bool", BOOLEAN, n) \cup ArraysOf("int64", EventCodes, n)
TimeArrays(n) ==
    ArraysOf("int64", IntTimes, n) \cup ArraysOf("float64", FloatTimes, n)
        \cup ArraysOf("bool", {TRUE}, n)

\* Entry times: distinct integers, zeros, a missing value first, booleans.
EntryArrays(n) ==
    {Array("int64", [i \in 1..n |-> i]),
     Array("float64", [i \in 1..n |-> Float(0)]),
     Array("float64", [i \in 1..n |-> IF i = 1 THEN NaN ELSE Float(0)]),
     Array("bool", [i \in 1..n |-> TRUE])}

\* (name_event, name_time); "" is None.
NamePairs == {"", "time"} \X {"", "time", "event"}

\* A structured array of 1 to 4 fields (all of one length), or a plain one.
PackedInputs(n) ==
    {Structured(<<"event", "time">>, <<e, t>>) : e \in EventArrays(n), t \in TimeArrays(n)}
    \cup {Structured(<<"event", "time", "entry">>, <<e, t, en>>) :
            e \in EventArrays(n), t \in TimeArrays(n), en \in EntryArrays(n)}
    \cup {Structured(<<"event">>, <<e>>) : e \in EventArrays(n)}
    \cup {Structured(<<"event", "time", "entry", "exit">>, <<e, t, t, t>>) :
            e \in EventArrays(n), t \in TimeArrays(n)}
    \cup EventArrays(n)

TimeArgs(n) ==
    LET slot == TimeArrays(n) \cup {NoneValue}
    IN {<<t>> : t \in slot}
        \cup {<<t, en>> : t \in slot, en \in EntryArrays(n) \cup {NoneValue}}

\* A DataFrame of two columns (its time column holds no missing value), or
\* an object that is no DataFrame.
ColumnIds == {"status", "days", "age"}
DataInputs ==
    {[kind |-> "dict"]}
    \cup UNION {{[kind |-> "frame", cols |-> [status |-> e, days |-> t]] :
                    e \in EventArrays(n),
                    t \in ArraysOf("int64", IntTimes, n) \cup ArraysOf("float64", {Float(0)}, n)} :
                 n \in Lens}

\* The columns drawn: "grade", categorical over one of three category
\* indexes (ordered or not) or plain, and "x", categorical or plain.  Every
\* object has one row.
GradeColumns ==
    {Column("category", c, o, <<c[Len(c)]>>) :
        c \in {<<"a", "b">>, <<"b", "a">>, <<"a">>}, o \in BOOLEAN}
    \cup {Column("object", <<>>, FALSE, <<"a">>)}
XColumns == {Column("category", <<"a">>, FALSE, <<"a">>), Column("object", <<>>, FALSE, <<"b">>)}

ConcatObjects ==
    {Frame(<<Named("grade", g)>>) : g \in GradeColumns}
    \cup {Frame(<<Named("x", x)>>) : x \in XColumns}
    \cup {Frame(<<Named("grade", g), Named("x", x)>>) : g \in GradeColumns, x \in XColumns}
    \cup {Series("grade", g) : g \in GradeColumns}
    \cup {Series("x", x) : x \in XColumns}

InitSafeConcat ==
    /\ pc = "call"
    /\ \E k \in 1..MaxObjs :
        \E objs \in [1..k -> ConcatObjects], axis \in {0, 1} :
            arg = [op |-> "safe_concat", objs |-> objs, axis |-> axis]
    /\ y = NoY

InitFromArrays ==
    /\ pc = "call"
    /\ \E n1 \in Lens, n2 \in Lens :
        \E e \in EventArrays(n1), t \in TimeArrays(n2), names \in NamePairs :
            arg = [op |-> "Surv.from_arrays", event |-> e, time |-> t,
                   name_event |-> names[1], name_time |-> names[2]]
    /\ y = NoY

InitFromDataframe ==
    /\ pc = "call"
    /\ \E data \in DataInputs, e \in ColumnIds, t \in ColumnIds :
            arg = [op |-> "Surv.from_dataframe", event |-> e, time |-> t, data |-> data]
    /\ y = NoY

InitCheckSeparate ==
    /\ pc = "call"
    /\ \E n \in Lens :
        \E e \in EventArrays(n), ts \in TimeArgs(n), a \in BOOLEAN :
            arg = [op |-> "check_y_survival", y_or_event |-> e, args |-> ts,
                   allow_all_censored |-> a]
    /\ y = NoY

InitHaveY ==
    /\ pc = "have_y"
    /\ arg = NoArg
    /\ \E n \in Lens : y \in PackedInputs(n)

Init ==
    /\ \/ InitFromArrays
       \/ InitFromDataframe
       \/ InitCheckSeparate
       \/ InitHaveY
       \/ InitSafeConcat
    /\ mem = arg
    /\ built = NoBuilt
    /\ ret = NoRet

(***************************************************************************)
(* The calls.                                                              *)
(***************************************************************************)
FromArrays ==
    /\ pc = "call"
    /\ arg.op = "Surv.from_arrays"
    /\ ret' = from_arrays(arg.event, arg.time, arg.name_event, arg.name_time)
    /\ IF ret'.ok
       THEN pc' = "have_y" /\ y' = ret'.value /\ built' = arg
       ELSE pc' = "done" /\ UNCHANGED <<y, built>>
    /\ UNCHANGED <<arg, mem>>

FromDataframe ==
    /\ pc = "call"
    /\ arg.op = "Surv.from_dataframe"
    /\ ret' = from_dataframe(arg.event, arg.time, arg.data)
    /\ pc' = "done"
    /\ UNCHANGED <<arg, mem, y, built>>

CheckYSurvival ==
    \/ /\ pc = "call"
       /\ arg.op = "check_y_survival"
       /\ ret' = check_y_survival(arg.y_or_event, arg.args, arg.allow_all_censored)
       /\ pc' = "done"
       /\ UNCHANGED <<arg, mem, y, built>>
    \/ /\ pc = "have_y"
       /\ \E a \in BOOLEAN :
            /\ arg' = [op |-> "check_y_survival", y_or_event |-> y, args |-> <<>>,
                       allow_all_censored |-> a]
            /\ ret' = check_y_survival(y, <<>>, a)
       /\ mem' = arg'
       /\ pc' = "done"
       /\ UNCHANGED <<y, built>>

CheckArraySurvival ==
    /\ pc = "have_y"
    /\ \E n \in Lens :
        /\ arg' = [op |-> "check_array_survival", X |-> Matrix(n), y |-> y]
        /\ ret' = check_array_survival(Matrix(n), y)
    /\ mem' = arg'
    /\ pc' = "done"
    /\ UNCHANGED <<y, built>>

BuildSurvivalTreeArray ==
    /\ pc = "have_y"
    /\ \E n \in Lens, w \in BOOLEAN :
        /\ arg' = [op |-> "build_survival_tree_array", X |-> Matrix(n), y |-> y,
                   with_event |-> w]
        /\ ret' = build_survival_tree_array(Matrix(n), y, w)
    /\ mem' = arg'
    /\ pc' = "done"
    /\ UNCHANGED <<y, built>>

SafeConcat ==
    /\ pc = "call"
    /\ arg.op = "safe_concat"
    /\ LET r == safe_concat(arg.objs, arg.axis)
       IN /\ ret' = r.ret
          /\ mem' = [arg EXCEPT !.objs = r.objs]
    /\ pc' = "done"
    /\ UNCHANGED <<arg, y, built>>

Next ==
    \/ FromArrays
    \/ FromDataframe
    \/ CheckYSurvival
    \/ CheckArraySurvival
    \/ BuildSurvivalTreeArray
    \/ SafeConcat

Spec == Init /\ [][Next]_vars

(***************************************************************************)
(* Vocabulary of the properties.                                           *)
(***************************************************************************)
\* The last call was op and has returned or raised.
Returned(op) == arg.op = op /\ pc # "call"

\* Element i of a numeric array as the float64 value it denotes.
FloatAt(a, i) == IF a.dtype = "int64" THEN Float(a.vals[i]) ELSE a.vals[i]
Finite(a) == a.dtype # "float64" \/ \A i \in DOMAIN a.vals : a.vals[i].fin
FiniteNumeric(a) == a.kind = "ndarray" /\ numeric(a.dtype) /\ Finite(a)

\* y was built by Surv.from_arrays from a boolean event array with an event
\* and a numeric time array, of n >= 1 samples, and check_y_survival(y) ran.
RoundTripCase ==
    /\ Returned("check_y_survival")
    /\ built # NoBuilt
    /\ arg.y_or_event = y
    /\ built.event.dtype = "bool"
    /\ numeric(built.time.dtype)
    /\ Len(built.event.vals) >= 1
    /\ \E i \in DOMAIN built.event.vals : built.event.vals[i]

RoundTripResult ==
    /\ ret.ok
    /\ Len(ret.value) = 2
    /\ ret.value[1].dtype = "bool"
    /\ ret.value[1].vals = built.event.vals
    /\ ret.value[2].dtype = "float64"
    /\ Len(ret.value[2].vals) = Len(built.time.vals)
    /\ \A i \in DOMAIN built.time.vals : ret.value[2].vals[i] = FloatAt(built.time, i)

\* C1 as stated: for every boolean e and numeric t of one length n >= 1 with
\* a true element in e, check_y_survival(Surv.from_arrays(e, t)) succeeds and
\* returns (e, t) element by element, in the input order.
C1_RoundTripAnyNumeric == RoundTripCase => RoundTripResult

\* C1, amended: the round trip succeeds and returns (e, t as float64),
\* element by element and in the input order, for every boolean e with a
\* true element and every numeric t OF FINITE VALUES, of one length n >= 1.
C1_RoundTripFinite == (RoundTripCase /\ Finite(built.time)) => RoundTripResult

C1_Witness ==
    /\ RoundTripCase
    /\ Finite(built.time)
    /\ built.event.vals = <<FALSE, TRUE>>
    /\ built.time = Array("int64", <<2, 1>>)
    /\ ret.ok

\* Surv.from_arrays returned or raised on a non-boolean event array of the
\* length of time, under two distinct field names.
NonBooleanCase ==
    /\ Returned("Surv.from_arrays")
    /\ arg.event.dtype # "bool"
    /\ Len(arg.event.vals) = Len(arg.time.vals)
    /\ (IF arg.name_event = "" THEN "event" ELSE arg.name_event)
           # (IF arg.name_time = "" THEN "time" ELSE arg.name_time)

Failed(msg) == ~ret.ok /\ ret.exc = "ValueError" /\ ret.msg = msg

\* C2: a non-boolean event array is classified by the set D of its distinct
\* values: |D| # 2 is the "must be binary" error, |D| = 2 with D # {0, 1} the
\* "must contain 0 and 1" error, and D = {0, 1} alone succeeds, the event
\* field being true exactly where the input was 1.
C2_BinaryClassification ==
    NonBooleanCase =>
        LET D == Range(arg.event.vals)
        IN /\ Cardinality(D) # 2 => Failed(CardinalityError)
           /\ (Cardinality(D) = 2 /\ D # {0, 1}) => Failed(EncodingError)
           /\ D = {0, 1} =>
                /\ ret.ok
                /\ ret.value.fields[1].dtype = "bool"
                /\ Len(ret.value.fields[1].vals) = Len(arg.event.vals)
                /\ \A i \in DOMAIN arg.event.vals :
                        ret.value.fields[1].vals[i] = (arg.event.vals[i] = 1)

C2_Witness ==
    /\ NonBooleanCase
    /\ arg.event.vals = <<1, 0>>
    /\ ret.ok
    /\ ret.value.fields[1].vals = <<TRUE, FALSE>>

\* Surv.from_arrays returned or raised on a numeric event array of n >= 1
\* samples, all of the value c.
ConstantEventCase(c) ==
    /\ NonBooleanCase
    /\ Len(arg.event.vals) >= 1
    /\ \A i \in DOMAIN arg.event.vals : arg.event.vals[i] = c

\* y was built from a numeric event array all of whose values are c.
BuiltFromConstant(c) ==
    /\ built # NoBuilt
    /\ built.event.dtype # "bool"
    /\ Len(built.event.vals) >= 1
    /\ \A i \in DOMAIN built.event.vals : built.event.vals[i] = c

\* C9 as stated: on the path Surv.from_arrays then check_y_survival, a numeric
\* all-0 event array fails with the all-censored error and with no other, and
\* passes under allow_all_censored; a numeric all-1 array raises no
\* all-censored error.
C9_AllZeroIsAllCensored ==
    /\ ConstantEventCase(0) => (ret.ok \/ Failed(AllCensoredError))
    /\ (Returned("check_y_survival") /\ BuiltFromConstant(0)) =>
            IF arg.allow_all_censored THEN ret.ok ELSE Failed(AllCensoredError)
    /\ (ConstantEventCase(1) \/ BuiltFromConstant(1)) => ~Failed(AllCensoredError)

\* C9, amended: a numeric event array whose values are all 0, or all 1, has
\* one distinct value, so Surv.from_arrays itself fails with the "must be
\* binary" error; check_y_survival is never reached with such an outcome
\* (allow_all_censored changes nothing) and no all-censored error is raised.
C9_ConstantIsNotBinary ==
    /\ (ConstantEventCase(0) \/ ConstantEventCase(1)) => Failed(CardinalityError)
    /\ ~BuiltFromConstant(0)
    /\ ~BuiltFromConstant(1)

C9_Witness == ConstantEventCase(0) /\ Len(arg.event.vals) = 2 /\ Failed(CardinalityError)

\* check_y_survival returned or raised on a call of one of its two shapes:
\* a packed record of two or three fields, or an event array and time arrays.
CheckedCase ==
    /\ Returned("check_y_survival")
    /\ \/ Len(arg.args) > 0
       \/ /\ arg.y_or_event.kind = "structured"
          /\ Len(arg.y_or_event.fields) \in {2, 3}

EventGiven == IF Len(arg.args) > 0 THEN arg.y_or_event ELSE arg.y_or_event.fields[1]
TimesGiven == IF Len(arg.args) > 0 THEN arg.args ELSE Tail(arg.y_or_event.fields)

AllFalse(a) == a.dtype = "bool" /\ \A i \in DOMAIN a.vals : ~a.vals[i]
NonEmpty(a) == Len(a.vals) >= 1

\* C3 as stated: the all-censored error is raised exactly when the event
\* array is boolean with no true element and allow_all_censored is false;
\* under allow_all_censored an all-false boolean event array with numeric
\* times is returned unchanged; a success without the opt-in has an event.
C3_AllCensoredExactly ==
    CheckedCase =>
        /\ Failed(AllCensoredError) <=> (AllFalse(EventGiven) /\ ~arg.allow_all_censored)
        /\ ( /\ arg.allow_all_censored
             /\ AllFalse(EventGiven)
             /\ \A k \in DOMAIN TimesGiven :
                    TimesGiven[k].kind = "ndarray" /\ numeric(TimesGiven[k].dtype) )
           => (ret.ok /\ ret.value = <<EventGiven>> \o TimesGiven)
        /\ (ret.ok /\ ~arg.allow_all_censored) =>
                \E i \in DOMAIN ret.value[1].vals : ret.value[1].vals[i]

\* C3, amended: the all-censored error is raised exactly when the event
\* array is boolean AND NOT EMPTY, has no true element, and
\* allow_all_censored is false; under allow_all_censored a non-empty
\* all-false boolean event array with non-empty numeric times of finite
\* values is returned unchanged; a success without the opt-in has an event.
C3_AllCensoredNonEmpty ==
    CheckedCase =>
        /\ Failed(AllCensoredError)
             <=> (AllFalse(EventGiven) /\ NonEmpty(EventGiven) /\ ~arg.allow_all_censored)
        /\ ( /\ arg.allow_all_censored
             /\ AllFalse(EventGiven)
             /\ NonEmpty(EventGiven)
             /\ \A k \in DOMAIN TimesGiven :
                    FiniteNumeric(TimesGiven[k]) /\ NonEmpty(TimesGiven[k]) )
           => (ret.ok /\ ret.value = <<EventGiven>> \o TimesGiven)
        /\ (ret.ok /\ ~arg.allow_all_censored) =>
                \E i \in DOMAIN ret.value[1].vals : ret.value[1].vals[i]

C3_Witness ==
    /\ CheckedCase
    /\ arg.allow_all_censored
    /\ EventGiven = Array("bool", <<FALSE, FALSE>>)
    /\ TimesGiven = <<Array("int64", <<2, 1>>)>>
    /\ ret.ok
    /\ ret.value = <<EventGiven>> \o TimesGiven

\* C4 as stated: in both call shapes an event array whose element type is
\* not boolean is rejected with the event type error, whatever its values,
\* whatever allow_all_censored and whatever the time arrays.
C4_NonBooleanRejected ==
    (CheckedCase /\ EventGiven.dtype # "bool") => Failed(EventTypeError)

\* C4, amended: in both call shapes a NON-EMPTY event array of integer
\* codes (element type not boolean) is rejected with the event type error,
\* even when its values are exactly {0, 1}; the all-censored check and the
\* time arrays play no part.
C4_NonEmptyNonBooleanRejected ==
    (CheckedCase /\ EventGiven.dtype = "int64" /\ NonEmpty(EventGiven))
        => Failed(EventTypeError)

\* All codes 0 (no event), a time array the time checks would refuse, and
\* no opt-in: the event type error all the same.
C4_Witness ==
    /\ CheckedCase
    /\ EventGiven = Array("int64", <<0, 0>>)
    /\ ~arg.allow_all_censored
    /\ ~Finite(TimesGiven[1])
    /\ Failed(EventTypeError)

\* arg.y is a valid packed outcome: two or three fields, a non-empty boolean
\* event field with an event, and numeric time fields of finite values.
ValidOutcome(yy) ==
    /\ yy.kind = "structured"
    /\ Len(yy.fields) \in {2, 3}
    /\ yy.fields[1].dtype = "bool"
    /\ NonEmpty(yy.fields[1])
    /\ \E i \in DOMAIN yy.fields[1].vals : yy.fields[1].vals[i]
    /\ \A k \in 2..Len(yy.fields) : FiniteNumeric(yy.fields[k])

IsIncreasing(s) == \A i \in 1..(Len(s) - 1) : s[i].fin /\ s[i + 1].fin /\ s[i].v < s[i + 1].v

TreeCase ==
    /\ Returned("build_survival_tree_array")
    /\ ValidOutcome(arg.y)
    /\ arg.X.shape0 = Len(arg.y.fields[1].vals)

\* C5: for a valid packed outcome of k fields and X of the same n samples,
\* build_survival_tree_array returns an n-row matrix of exactly k columns
\* whose row i is [time[i], 1.0 or 0.0 for event[i], entry[i] when k = 3], in
\* the input order, and event_times is the strictly increasing sequence of
\* the distinct times of exactly the rows where event is true.
C5_TreeArray ==
    TreeCase =>
        LET f == arg.y.fields
            k == Len(f)
            n == Len(f[1].vals)
            m == ret.value.y_numeric
            et == ret.value.event_times
        IN /\ ret.ok
           /\ Len(m) = n
           /\ \A i \in 1..n :
                /\ Len(m[i]) = k
                /\ m[i][1] = FloatAt(f[2], i)
                /\ m[i][2] = Float(IF f[1].vals[i] THEN 1 ELSE 0)
                /\ k = 3 => m[i][3] = FloatAt(f[3], i)
           /\ IsIncreasing(et)
           /\ Range(et) = {FloatAt(f[2], i) : i \in {j \in 1..n : f[1].vals[j]}}

\* Three fields, the event times out of order in the input, a censored row.
C5_Witness ==
    /\ TreeCase
    /\ Len(arg.y.fields) = 3
    /\ arg.y.fields[1].vals = <<TRUE, TRUE, FALSE>>
    /\ arg.y.fields[2] = Array("int64", <<2, 1, 2>>)
    /\ arg.y.fields[3] = Array("int64", <<1, 2, 3>>)
    /\ ret.ok
    /\ ret.value.event_times = <<Float(1), Float(2)>>
    /\ ret.value.y_numeric[1] = <<Float(2), Float(1), Float(1)>>
    /\ ret.value.y_numeric[3] = <<Float(2), Float(0), Float(3)>>

ArraySurvivalCase ==
    /\ Returned("check_array_survival")
    /\ ValidOutcome(arg.y)
    /\ Len(arg.y.fields) = 2

\* C8: for a valid 2-field packed outcome of n samples, check_array_survival
\* raises the length-consistency error if and only if X has another number
\* of samples than n, and otherwise returns the (event, time) pair of the
\* outcome, which is what check_y_survival returns for it.
C8_LengthConsistency ==
    ArraySurvivalCase =>
        /\ Failed(LengthMismatch) <=> arg.X.shape0 # Len(arg.y.fields[1].vals)
        /\ arg.X.shape0 = Len(arg.y.fields[1].vals) =>
                /\ ret.ok
                /\ ret.value = <<arg.y.fields[1], arg.y.fields[2]>>
                /\ ret = check_y_survival(arg.y, <<>>, FALSE)
        /\ ret.ok \/ Failed(LengthMismatch)

C8_Witness ==
    /\ ArraySurvivalCase
    /\ Len(arg.y.fields[1].vals) = 2
    /\ arg.X.shape0 = 1
    /\ Failed(LengthMismatch)

(***************************************************************************)
(* safe_concat                                                             *)
(***************************************************************************)
ConcatCase(axis) == Returned("safe_concat") /\ arg.axis = axis

\* Object objs[i], as passed, holds the categorical column `name`.
HoldsCategorical(objs, i, name) ==
    IF objs[i].kind = "series"
    THEN objs[i].name = name /\ objs[i].col.dtype = "category"
    ELSE \E j \in DOMAIN objs[i].cols :
            objs[i].cols[j].name = name /\ objs[i].cols[j].col.dtype = "category"
\* ... and that column.
CategoricalOf(objs, i, name) ==
    IF objs[i].kind = "series" THEN objs[i].col ELSE ColOf(objs[i].cols, name)

AllFrames(objs) == \A i \in DOMAIN objs : objs[i].kind = "frame"
ColumnNames == {"grade", "x"}

\* C6 as stated: in a column-wise merge, two objects holding a categorical
\* column of one name with different category sets make safe_concat fail
\* with the category-mismatch error.
C6_ColumnwiseMismatchError ==
    ( /\ ConcatCase(1)
      /\ \E i \in DOMAIN arg.objs, j \in DOMAIN arg.objs, name \in ColumnNames :
            /\ i < j
            /\ HoldsCategorical(arg.objs, i, name)
            /\ HoldsCategorical(arg.objs, j, name)
            /\ Range(CategoricalOf(arg.objs, i, name).categories)
                    # Range(CategoricalOf(arg.objs, j, name).categories) )
    => Failed(CategoryMismatch)

\* C6, amended: in a column-wise merge, two DataFrames holding a categorical
\* column of one name make safe_concat fail with the DUPLICATE-COLUMN error,
\* whether their category sets differ or not; the category-mismatch error is
\* never raised in a column-wise merge.
C6_ColumnwiseDuplicateError ==
    ConcatCase(1) =>
        /\ ( \E i \in DOMAIN arg.objs, j \in DOMAIN arg.objs, name \in ColumnNames :
                /\ i < j
                /\ arg.objs[i].kind = "frame"
                /\ arg.objs[j].kind = "frame"
                /\ HoldsCategorical(arg.objs, i, name)
                /\ HoldsCategorical(arg.objs, j, name) )
           => Failed(DuplicateColumn)
        /\ ~Failed(CategoryMismatch)

C6_Witness ==
    /\ ConcatCase(1)
    /\ Len(arg.objs) = 2
    /\ AllFrames(arg.objs)
    /\ HoldsCategorical(arg.objs, 1, "grade")
    /\ HoldsCategorical(arg.objs, 2, "grade")
    /\ CategoricalOf(arg.objs, 1, "grade").categories = <<"a", "b">>
    /\ CategoricalOf(arg.objs, 2, "grade").categories = <<"a">>
    /\ Failed(DuplicateColumn)

\* The first object that holds `name` as a categorical column.
FirstHolder(objs, name) ==
    CHOOSE i \in DOMAIN objs :
        /\ HoldsCategorical(objs, i, name)
        /\ \A h \in 1..(i - 1) : ~HoldsCategorical(objs, h, name)

\* The merged column `name` is categorical with the spec of the first holder.
FirstSpecReapplied(name) ==
    LET first == CategoricalOf(arg.objs, FirstHolder(arg.objs, name), name)
    IN /\ ret.ok
       /\ ret.value.kind = "frame"
       /\ HasCol(ret.value.cols, name)
       /\ ColOf(ret.value.cols, name).dtype = "category"
       /\ ColOf(ret.value.cols, name).categories = first.categories
       /\ ColOf(ret.value.cols, name).ordered = first.ordered

SomeHolder(name) == \E i \in DOMAIN arg.objs : HoldsCategorical(arg.objs, i, name)

\* Two DataFrames hold `name` as categorical columns of unequal category
\* indexes (Index.equals: the same values in the same order).
IndexesDiffer ==
    \E i \in DOMAIN arg.objs, j \in DOMAIN arg.objs, name \in ColumnNames :
        /\ HoldsCategorical(arg.objs, i, name)
        /\ HoldsCategorical(arg.objs, j, name)
        /\ CategoricalOf(arg.objs, i, name).categories
                # CategoricalOf(arg.objs, j, name).categories

\* C7 as stated: a row-wise merge (of DataFrames) does not fail on differing
\* category sets of a same-named categorical column, and the spec recorded
\* the first time the name is seen is re-applied to the merged column.
C7_RowwiseNoMatchRequired ==
    (ConcatCase(0) /\ AllFrames(arg.objs)) =>
        \A name \in ColumnNames : SomeHolder(name) => FirstSpecReapplied(name)

\* C7, amended: a row-wise merge of DataFrames REQUIRES the category indexes
\* of a same-named categorical column to be equal, failing with the
\* category-mismatch error otherwise (orderedness is not compared); when
\* they are equal the merge succeeds and the spec recorded the first time
\* the name is seen, category index and orderedness, is re-applied to that
\* column of the merged result.
C7_RowwiseMatchRequired ==
    (ConcatCase(0) /\ AllFrames(arg.objs)) =>
        IF IndexesDiffer THEN Failed(CategoryMismatch)
        ELSE /\ ret.ok
             /\ \A name \in ColumnNames : SomeHolder(name) => FirstSpecReapplied(name)

\* Equal category indexes, the first ordered and the second not.
C7_Witness ==
    /\ ConcatCase(0)
    /\ Len(arg.objs) = 2
    /\ AllFrames(arg.objs)
    /\ HoldsCategorical(arg.objs, 1, "grade")
    /\ HoldsCategorical(arg.objs, 2, "grade")
    /\ CategoricalOf(arg.objs, 1, "grade").ordered
    /\ ~CategoricalOf(arg.objs, 2, "grade").ordered
    /\ ret.ok
    /\ ColOf(ret.value.cols, "grade").ordered
    /\ ColOf(ret.value.cols, "grade").vals = <<"b", "b">>

\* The scan of safe_concat ran to its end: the generic concatenation ran.
ScanCompleted == ~Failed(DuplicateColumn) /\ ~Failed(CategoryMismatch)

\* obj with every categorical column made plain.
AllPlain(obj) ==
    IF obj.kind = "series"
    THEN [obj EXCEPT !.col = IF obj.col.dtype = "category" THEN AsObject(obj.col) ELSE obj.col]
    ELSE [obj EXCEPT !.cols =
            [j \in DOMAIN obj.cols |->
                IF obj.cols[j].col.dtype = "category"
                THEN Named(obj.cols[j].name, AsObject(obj.cols[j].col))
                ELSE obj.cols[j]]]

\* C10 as stated: when the generic concatenation runs, every categorical
\* column of every input, a DataFrame's or a categorical Series, has been
\* made plain in place, nothing else of the inputs has changed, and no other
\* public operation changes its inputs.
C10_EveryCategoricalConverted ==
    /\ (Returned("safe_concat") /\ ScanCompleted) =>
            /\ mem.axis = arg.axis
            /\ Len(mem.objs) = Len(arg.objs)
            /\ \A i \in DOMAIN arg.objs : mem.objs[i] = AllPlain(arg.objs[i])
    /\ (pc # "call" /\ arg.op # "safe_concat") => mem = arg

\* C10, amended: when the generic concatenation runs, every categorical
\* column OF A DATAFRAME input has been made plain in place; a categorical
\* SERIES is left as it was; a scan that raises leaves each categorical
\* column of a DataFrame either as it was or made plain; nothing else of
\* the inputs changes, and no other public operation changes its inputs.
C10_FrameCategoricalsConverted ==
    /\ Returned("safe_concat") =>
            /\ mem.axis = arg.axis
            /\ Len(mem.objs) = Len(arg.objs)
            /\ \A i \in DOMAIN arg.objs :
                IF arg.objs[i].kind = "series" THEN mem.objs[i] = arg.objs[i]
                ELSE /\ ScanCompleted => mem.objs[i] = AllPlain(arg.objs[i])
                     /\ mem.objs[i].kind = "frame"
                     /\ Len(mem.objs[i].cols) = Len(arg.objs[i].cols)
                     /\ \A j \in DOMAIN arg.objs[i].cols :
                            \/ mem.objs[i].cols[j] = arg.objs[i].cols[j]
                            \/ mem.objs[i].cols[j] = AllPlain(arg.objs[i]).cols[j]
    /\ (pc # "call" /\ arg.op # "safe_concat") => mem = arg

\* A categorical Series beside a DataFrame with a categorical column.
C10_Witness ==
    /\ Returned("safe_concat")
    /\ ScanCompleted
    /\ Len(arg.objs) = 2
    /\ arg.objs[1].kind = "series"
    /\ arg.objs[1].col.dtype = "category"
    /\ mem.objs[1] = arg.objs[1]
    /\ arg.objs[2].kind = "frame"
    /\ HoldsCategorical(arg.objs, 2, "x")
    /\ mem.objs[2] # arg.objs[2]
    /\ mem.objs[2] = AllPlain(arg.objs[2])

====
